---- MODULE Spec2Model ----
(***************************************************************************)
(* Model of app/memory_service.py (class MemoryService) running against    *)
(* the table app/database.py declares.  Every call gets its own session    *)
(* from get_db; every `await` of a database round trip is one step, so the *)
(* calls of different tasks interleave between their statements.  The      *)
(* database gives READ COMMITTED isolation: a statement sees the rows      *)
(* committed when it runs, and a writer waits for a row that another       *)
(* open transaction has already deleted.                                   *)
(***************************************************************************)
EXTENDS Integers, Sequences, FiniteSets, TLC

\* ---------------------------------------------------------------- bounds
\* Rows the table holds when the service is constructed.
MaxRows == 1

\* The largest max_retries wait_for_db is run with.
MaxRetries == 5

Tasks == {"t1", "t2"}
Users == {"u1", "u2"}
Contents == {<<>>, <<"B">>}
Queries == {<<>>, <<" ">>, <<"b">>}

\* Contents and queries of the search runs: blank and non-blank, both letter
\* cases, and the two characters LIKE reads as wildcards.
SearchContents == {<<>>, <<" ">>, <<"B">>, <<"a", "b">>}
SearchQueries == {<<>>, <<" ">>, <<"b">>, <<"B">>, <<"_">>, <<"%">>}

\* The ids a caller can pass: those of the rows stored at the start and the
\* next one create_memory hands out.
AnyId == 1..(MaxRows + 1)

VARIABLES
    db,          \* the rows of table "memories"
    clock,       \* the wall clock read by datetime.now
    born,        \* history: id -> the user and timestamp of the create that drew it
    returned,    \* history: ids that create_memory has returned
    pc,          \* per task: the statement its call awaits
    call,        \* per task: the operation and arguments of its call
    db_session,  \* per task: the session of the call (loaded object, pending changes)
    ret,         \* per task: what its call returned or raised
    hb,          \* history: <<s, t>> when s's call returned before t's call was issued
    db0,         \* history: the rows stored when the service was constructed
    stamp,       \* history: per task, the timestamps its call has read from the clock
    script,      \* the run of init_db.py: position, loop index, attempts, outcome
    session_state      \* per task: the state of the session get_db made for its request

vars == <<db, clock, born, returned, pc, call, db_session, ret, hb, db0, stamp,
          script, session_state>>

\* ---------------------------------------------------------------- values
MemoryModel(id, user_id, content, created_at, updated_at) ==
    [id |-> id, user_id |-> user_id, content |-> content,
     created_at |-> created_at, updated_at |-> updated_at]

from_model_stale(model) ==
    [id |-> model.id, user_id |-> model.user_id, content |-> model.content,
     created_at |-> model.created_at, updated_at |-> model.created_at]

from_model(model) ==
    [id |-> model.id, user_id |-> model.user_id, content |-> model.content,
     created_at |-> model.created_at, updated_at |-> model.updated_at]

None == [kind |-> "None"]
Pending == [kind |-> "pending"]
RetData(m) == [kind |-> "data", data |-> m]
RetBool(b) == [kind |-> "bool", val |-> b]
RetList(l) == [kind |-> "list", val |-> l]
RetInt(n) == [kind |-> "int", val |-> n]
Raise(e) == [kind |-> "raise", exc |-> e]

NoCall == [op |-> "none"]
NoObject == [id |-> -1]
AsyncSession == [db_memory |-> NoObject, modified |-> {}, bulk |-> {}]

\* init_db.py is a process of its own: it does not run in the service.
NotRunning == [pc |-> "none"]

\* The script at the first statement of wait_for_db(max_retries).
ScriptStart(max_retries) ==
    [pc |-> "wait_for_db", max_retries |-> max_retries, i |-> 0,
     outcomes |-> <<>>, result |-> "pending", tables |-> FALSE,
     reported |-> FALSE, raised |-> FALSE, disposed |-> FALSE, exit_status |-> -1]

\* ---------------------------------------------------------------- helpers
\* uuid4(): 122 random bits, so a draw repeats no earlier draw.  Ids are opaque
\* (the code only compares them), so the n-th draw is written n.
uuid4_free ==
    {CHOOSE i \in 1..(Cardinality(db) + 1) : \A r \in db : r.id # i}
uuid4_reuse == 1..(Cardinality(DOMAIN born) + 1)
uuid4 == {Cardinality(DOMAIN born) + 1}

Now_backwards == 0..(clock + 1)

\* datetime.now(timezone.utc): the clock does not run backwards and two reads
\* may give the same value.
Now == {clock, clock + 1}

\* select(MemoryModel).filter(id == memory_id, user_id == user_id)
SelectOwned_any(rows, memory_id, user_id) ==
    {r \in rows : r.id = memory_id}
SelectOwned_user(rows, memory_id, user_id) ==
    {r \in rows : r.user_id = user_id}
SelectOwned(rows, memory_id, user_id) ==
    {r \in rows : r.id = memory_id /\ r.user_id = user_id}

\* The row with a primary key (session.refresh, and the WHERE of UPDATE/DELETE).
ByKey(rows, memory_id) == {r \in rows : r.id = memory_id}

\* str.lower / func.lower
LowerChar(c) == CASE c = "A" -> "a" [] c = "B" -> "b" [] OTHER -> c
Lower(s) == [i \in 1..Len(s) |-> LowerChar(s[i])]

IsBlank_empty(query) == query = <<>>

\* not query or not query.strip()
IsBlank(query) == \A i \in 1..Len(query) : query[i] = " "

\* content LIKE pattern, with the wildcards % and _
RECURSIVE Like(_, _)
Like(s, p) ==
    IF p = <<>> THEN s = <<>>
    ELSE IF Head(p) = "%"
         THEN Like(s, Tail(p)) \/ (s # <<>> /\ Like(Tail(s), p))
         ELSE /\ s # <<>>
              /\ (Head(p) = "_" \/ Head(p) = Head(s))
              /\ Like(Tail(s), Tail(p))

\* column.contains(other): column LIKE '%' || other || '%'
Contains(s, other) == Like(s, <<"%">> \o other \o <<"%">>)

SearchRows_anyone(rows, user_id, query) ==
    {r \in rows : Contains(Lower(r.content), Lower(query))}
SearchRows_cased(rows, user_id, query) ==
    {r \in rows : r.user_id = user_id /\ Contains(Lower(r.content), query)}

\* The rows the search statement selects.
SearchRows(rows, user_id, query) ==
    {r \in rows : r.user_id = user_id /\ Contains(Lower(r.content), Lower(query))}

OrderByCreatedDesc_asc(rows) ==
    {l \in [1..Cardinality(rows) -> rows] :
        /\ \A i, j \in DOMAIN l : i # j => l[i] # l[j]
        /\ \A i, j \in DOMAIN l : i < j => l[i].created_at <= l[j].created_at}

\* order_by(created_at.desc()): every listing of the rows, newest first; rows
\* with equal created_at come in any order.
OrderByCreatedDesc(rows) ==
    {l \in [1..Cardinality(rows) -> rows] :
        /\ \A i, j \in DOMAIN l : i # j => l[i] # l[j]
        /\ \A i, j \in DOMAIN l : i < j => l[i].created_at >= l[j].created_at}

LockedByOthers_select(t) ==
    UNION {db_session[s].bulk \cup {db_session[s].db_memory.id} :
              s \in {x \in Tasks : x # t /\ pc[x] \notin {"idle", "done"}}}

\* Rows another open transaction has deleted and not yet committed: a writer
\* of such a row waits for that transaction.
LockedByOthers(t) ==
    UNION {db_session[s].bulk : s \in {x \in Tasks : x # t /\ pc[x] = "clear_commit"}}

\* The ids a caller can pass: a uuid4 that create_memory has drawn reaches a
\* caller only in the record create_memory returns.
KnownIds == {i \in AnyId : i \in DOMAIN born => i \in returned}

\* A call is issued by t: it comes after every call that has returned.
Issued(t) == hb \cup {<<s, t>> : s \in {x \in Tasks : pc[x] = "done"}}

Begin(t, c, next, session) ==
    /\ pc[t] = "idle"
    /\ call' = [call EXCEPT ![t] = c]
    /\ pc' = [pc EXCEPT ![t] = next]
    /\ db_session' = [db_session EXCEPT ![t] = session]
    /\ hb' = Issued(t)
    /\ UNCHANGED <<ret, script, session_state>>

BeginReturn(t, c, r) ==
    /\ pc[t] = "idle"
    /\ call' = [call EXCEPT ![t] = c]
    /\ pc' = [pc EXCEPT ![t] = "done"]
    /\ ret' = [ret EXCEPT ![t] = r]
    /\ hb' = Issued(t)
    /\ UNCHANGED <<db_session, script, session_state>>

Goto(t, next) ==
    /\ pc' = [pc EXCEPT ![t] = next]
    /\ UNCHANGED <<call, db_session, ret, hb, script, session_state>>

Return(t, r) ==
    /\ pc' = [pc EXCEPT ![t] = "done"]
    /\ db_session' = [db_session EXCEPT ![t] = AsyncSession]
    /\ ret' = [ret EXCEPT ![t] = r]
    /\ UNCHANGED <<call, hb, script, session_state>>

create_memory_shared(t, user_id, content) ==
    \E memory_id \in uuid4, now \in Now :
        /\ Begin(t, [op |-> "create", user_id |-> user_id, content |-> content],
                 "create_commit",
                 [AsyncSession EXCEPT
                     !.db_memory = MemoryModel(memory_id, "u1", content, now, now)])
        /\ clock' = now
        /\ born' = [i \in DOMAIN born \cup {memory_id} |->
                       IF i = memory_id THEN [user_id |-> user_id, created_at |-> now]
                       ELSE born[i]]
        /\ stamp' = [stamp EXCEPT ![t] = @ \cup {now}]
        /\ UNCHANGED <<db, returned, db0>>

create_memory_lowered(t, user_id, content) ==
    \E memory_id \in uuid4, now \in Now :
        /\ Begin(t, [op |-> "create", user_id |-> user_id, content |-> content],
                 "create_commit",
                 [AsyncSession EXCEPT
                     !.db_memory = MemoryModel(memory_id, user_id, Lower(content), now, now)])
        /\ clock' = now
        /\ born' = [i \in DOMAIN born \cup {memory_id} |->
                       IF i = memory_id THEN [user_id |-> user_id, created_at |-> now]
                       ELSE born[i]]
        /\ stamp' = [stamp EXCEPT ![t] = @ \cup {now}]
        /\ UNCHANGED <<db, returned, db0>>

\* ---------------------------------------------------------------- create
create_memory(t, user_id, content) ==
    \E memory_id \in uuid4, now \in Now :
        /\ Begin(t, [op |-> "create", user_id |-> user_id, content |-> content],
                 "create_commit",
                 [AsyncSession EXCEPT
                     !.db_memory = MemoryModel(memory_id, user_id, content, now, now)])
        /\ clock' = now
        /\ born' = [i \in DOMAIN born \cup {memory_id} |->
                       IF i = memory_id THEN [user_id |-> user_id, created_at |-> now]
                       ELSE born[i]]
        /\ stamp' = [stamp EXCEPT ![t] = @ \cup {now}]
        /\ UNCHANGED <<db, returned, db0>>

\* await db_session.commit(): INSERT, refused when the primary key is taken.
create_memory_commit(t) ==
    /\ pc[t] = "create_commit"
    /\ LET m == db_session[t].db_memory IN
       IF ByKey(db, m.id) # {}
       THEN /\ Return(t, Raise("IntegrityError"))
            /\ UNCHANGED db
       ELSE /\ db' = db \cup {m}
            /\ Goto(t, "create_refresh")
    /\ UNCHANGED <<clock, born, returned, db0, stamp>>

\* await db_session.refresh(db_memory): reload by primary key, which raises
\* when the row is gone; then return MemoryData.from_model(db_memory).
create_memory_refresh(t) ==
    /\ pc[t] = "create_refresh"
    /\ LET found == ByKey(db, db_session[t].db_memory.id) IN
       IF found = {}
       THEN /\ Return(t, Raise("InvalidRequestError"))
            /\ UNCHANGED returned
       ELSE \E m \in found :
            /\ Return(t, RetData(from_model(m)))
            /\ returned' = returned \cup {m.id}
    /\ UNCHANGED <<db, clock, born, db0, stamp>>

get_memory_touch(t, memory_id, user_id) ==
    /\ LET found == SelectOwned(db, memory_id, user_id)
           c == [op |-> "get", memory_id |-> memory_id, user_id |-> user_id] IN
       IF found = {}
       THEN BeginReturn(t, c, None) /\ UNCHANGED db
       ELSE \E m \in found :
            /\ BeginReturn(t, c, RetData(from_model(m)))
            /\ db' = (db \ {m}) \cup {[m EXCEPT !.updated_at = clock + 1]}
    /\ UNCHANGED <<clock, born, returned, db0, stamp>>

get_memory_startup(t, memory_id, user_id) ==
    /\ LET found == SelectOwned(db0, memory_id, user_id)
           c == [op |-> "get", memory_id |-> memory_id, user_id |-> user_id] IN
       IF found = {}
       THEN BeginReturn(t, c, None)
       ELSE \E m \in found : BeginReturn(t, c, RetData(from_model(m)))
    /\ UNCHANGED <<db, clock, born, returned, db0, stamp>>

\* ---------------------------------------------------------------- get
get_memory(t, memory_id, user_id) ==
    /\ LET found == SelectOwned(db, memory_id, user_id)
           c == [op |-> "get", memory_id |-> memory_id, user_id |-> user_id] IN
       IF found = {}
       THEN BeginReturn(t, c, None)
       ELSE \E m \in found : BeginReturn(t, c, RetData(from_model(m)))
    /\ UNCHANGED <<db, clock, born, returned, db0, stamp>>

\* ---------------------------------------------------------------- update
\* The select, and when it finds the row the two assignments before the commit.
\* The session records an attribute as modified when its new value differs
\* from the loaded one.
update_memory(t, memory_id, content, user_id) ==
    LET found == SelectOwned(db, memory_id, user_id)
        c == [op |-> "update", memory_id |-> memory_id, content |-> content,
              user_id |-> user_id] IN
    IF found = {}
    THEN /\ BeginReturn(t, c, None)
         /\ UNCHANGED <<db, clock, born, returned, db0, stamp>>
    ELSE \E m \in found, now \in Now :
         /\ Begin(t, c, "update_commit",
                  [db_memory |-> [m EXCEPT !.content = content, !.updated_at = now],
                   modified |-> (IF content # m.content THEN {"content"} ELSE {})
                                \cup (IF now # m.updated_at THEN {"updated_at"} ELSE {}),
                   bulk |-> {}])
         /\ clock' = now
         /\ stamp' = [stamp EXCEPT ![t] = @ \cup {now}]
         /\ UNCHANGED <<db, born, returned, db0>>

update_memory_commit_owner(t) ==
    /\ pc[t] = "update_commit"
    /\ LET m == db_session[t].db_memory IN
       /\ m.id \notin LockedByOthers(t)
       /\ IF ByKey(db, m.id) = {}
          THEN /\ Return(t, Raise("StaleDataError"))
               /\ UNCHANGED db
          ELSE /\ db' = {IF r.user_id = m.user_id
                         THEN [r EXCEPT !.content = m.content,
                                        !.updated_at = m.updated_at]
                         ELSE r : r \in db}
               /\ Goto(t, "update_refresh")
    /\ UNCHANGED <<clock, born, returned, db0, stamp>>

update_memory_commit_upsert(t) ==
    /\ pc[t] = "update_commit"
    /\ db' = {r \in db : r.id # db_session[t].db_memory.id}
                 \cup {db_session[t].db_memory}
    /\ Goto(t, "update_refresh")
    /\ UNCHANGED <<clock, born, returned, db0, stamp>>

\* await db_session.commit(): UPDATE ... SET <modified attributes> WHERE id = :id.
\* No statement when nothing is modified; updated_at takes its onupdate default
\* when the statement does not set it; StaleDataError when no row matches.
update_memory_commit(t) ==
    /\ pc[t] = "update_commit"
    /\ LET m == db_session[t].db_memory
           modified == db_session[t].modified
           found == ByKey(db, m.id) IN
       /\ m.id \notin LockedByOthers(t)
       /\ IF modified = {}
          THEN /\ Goto(t, "update_refresh")
               /\ UNCHANGED <<db, clock, stamp>>
          ELSE IF found = {}
          THEN /\ Return(t, Raise("StaleDataError"))
               /\ UNCHANGED <<db, clock, stamp>>
          ELSE \E r \in found, onupdate \in Now :
               /\ db' = (db \ {r}) \cup
                      {[r EXCEPT
                          !.content = IF "content" \in modified THEN m.content ELSE @,
                          !.updated_at = IF "updated_at" \in modified
                                         THEN m.updated_at ELSE onupdate]}
               /\ clock' = IF "updated_at" \in modified THEN clock ELSE onupdate
               /\ stamp' = IF "updated_at" \in modified THEN stamp
                           ELSE [stamp EXCEPT ![t] = @ \cup {onupdate}]
               /\ Goto(t, "update_refresh")
    /\ UNCHANGED <<born, returned, db0>>

update_memory_refresh(t) ==
    /\ pc[t] = "update_refresh"
    /\ LET found == ByKey(db, db_session[t].db_memory.id) IN
       IF found = {}
       THEN Return(t, Raise("InvalidRequestError"))
       ELSE \E m \in found : Return(t, RetData(from_model(m)))
    /\ UNCHANGED <<db, clock, born, returned, db0, stamp>>

\* ---------------------------------------------------------------- search
search_memories(t, user_id, query) ==
    /\ LET c == [op |-> "search", user_id |-> user_id, query |-> query] IN
       IF IsBlank(query)
       THEN BeginReturn(t, c, RetList(<<>>))
       ELSE \E l \in OrderByCreatedDesc(SearchRows(db, user_id, query)) :
            BeginReturn(t, c, RetList([i \in DOMAIN l |-> from_model(l[i])]))
    /\ UNCHANGED <<db, clock, born, returned, db0, stamp>>

\* ---------------------------------------------------------------- delete
delete_memory(t, memory_id, user_id) ==
    /\ LET found == SelectOwned(db, memory_id, user_id)
           c == [op |-> "delete", memory_id |-> memory_id, user_id |-> user_id] IN
       IF found = {}
       THEN BeginReturn(t, c, RetBool(FALSE))
       ELSE \E m \in found :
            Begin(t, c, "delete_commit", [AsyncSession EXCEPT !.db_memory = m])
    /\ UNCHANGED <<db, clock, born, returned, db0, stamp>>

delete_memory_commit_kept(t) ==
    /\ pc[t] = "delete_commit"
    /\ Return(t, RetBool(TRUE))
    /\ UNCHANGED <<db, clock, born, returned, db0, stamp>>

\* await db_session.commit(): DELETE ... WHERE id = :id.  A delete that matches
\* no row is only warned about, and the call goes on to return True.
delete_memory_commit(t) ==
    /\ pc[t] = "delete_commit"
    /\ LET m == db_session[t].db_memory IN
       /\ m.id \notin LockedByOthers(t)
       /\ db' = db \ ByKey(db, m.id)
    /\ Return(t, RetBool(TRUE))
    /\ UNCHANGED <<clock, born, returned, db0, stamp>>

\* ---------------------------------------------------------------- clear
\* await db_session.execute(delete(MemoryModel)): the rows committed now are
\* deleted in the open transaction; it waits for rows another one has deleted.
clear_memories(t) ==
    /\ LockedByOthers(t) \cap {r.id : r \in db} = {}
    /\ Begin(t, [op |-> "clear"], "clear_commit",
             [AsyncSession EXCEPT !.bulk = {r.id : r \in db}])
    /\ UNCHANGED <<db, clock, born, returned, db0, stamp>>

clear_memories_commit_kept(t) ==
    /\ pc[t] = "clear_commit"
    /\ Return(t, RetInt(Cardinality(db_session[t].bulk)))
    /\ UNCHANGED <<db, clock, born, returned, db0, stamp>>

clear_memories_commit(t) ==
    /\ pc[t] = "clear_commit"
    /\ db' = {r \in db : r.id \notin db_session[t].bulk}
    /\ Return(t, RetInt(Cardinality(db_session[t].bulk)))
    /\ UNCHANGED <<clock, born, returned, db0, stamp>>

\* ---------------------------------------------------------------- system
\* The table outlives the process: the service starts on the rows earlier runs
\* left, each as create_memory inserts a row (created_at = updated_at).
StoredRows(n) ==
    {rows \in SUBSET {MemoryModel(i, u, c, 0, 0) :
                          i \in 1..n, u \in Users, c \in Contents} :
        \A i \in 1..n : Cardinality(ByKey(rows, i)) = 1}

Init ==
    /\ \E n \in 0..MaxRows : db \in StoredRows(n)
    /\ db0 = db
    /\ clock = 0
    /\ born = [i \in {r.id : r \in db} |->
                  [user_id |-> (CHOOSE r \in db : r.id = i).user_id, created_at |-> 0]]
    /\ returned = {r.id : r \in db}
    /\ pc = [t \in Tasks |-> "idle"]
    /\ call = [t \in Tasks |-> NoCall]
    /\ db_session = [t \in Tasks |-> AsyncSession]
    /\ ret = [t \in Tasks |-> Pending]
    /\ hb = {}
    /\ stamp = [t \in Tasks |-> {}]
    /\ script = NotRunning
    /\ session_state = [t \in Tasks |-> "none"]

Next ==
    \E t \in Tasks :
        \/ \E u \in Users, c \in Contents : create_memory(t, u, c)
        \/ create_memory_commit(t)
        \/ create_memory_refresh(t)
        \/ \E i \in KnownIds, u \in Users : get_memory(t, i, u)
        \/ \E i \in KnownIds, c \in Contents, u \in Users : update_memory(t, i, c, u)
        \/ update_memory_commit(t)
        \/ update_memory_refresh(t)
        \/ \E u \in Users, q \in Queries : search_memories(t, u, q)
        \/ \E i \in KnownIds, u \in Users : delete_memory(t, i, u)
        \/ delete_memory_commit(t)
        \/ clear_memories(t)
        \/ clear_memories_commit(t)

Spec == Init /\ [][Next]_vars

\* The searches alone: the table holds rows of SearchContents and every task
\* issues one search_memories with a query of SearchQueries.
SearchStoredRows(n) ==
    {rows \in SUBSET {MemoryModel(i, u, c, 0, 0) :
                          i \in 1..n, u \in Users, c \in SearchContents} :
        \A i \in 1..n : Cardinality(ByKey(rows, i)) = 1}

InitSearch ==
    /\ \E n \in 0..(MaxRows + 1) : db \in SearchStoredRows(n)
    /\ db0 = db
    /\ clock = 0
    /\ born = [i \in {r.id : r \in db} |->
                  [user_id |-> (CHOOSE r \in db : r.id = i).user_id, created_at |-> 0]]
    /\ returned = {r.id : r \in db}
    /\ pc = [t \in Tasks |-> "idle"]
    /\ call = [t \in Tasks |-> NoCall]
    /\ db_session = [t \in Tasks |-> AsyncSession]
    /\ ret = [t \in Tasks |-> Pending]
    /\ hb = {}
    /\ stamp = [t \in Tasks |-> {}]
    /\ script = NotRunning
    /\ session_state = [t \in Tasks |-> "none"]

NextSearch ==
    \E t \in Tasks, u \in Users, q \in SearchQueries : search_memories(t, u, q)

SpecSearch == InitSearch /\ [][NextSearch]_vars

\* The caller assigns to the content field of a record a call returned to it
\* (one of the records of a list, for search).  MemoryData is a dataclass that
\* holds the five values from_model copied out of the row: the assignment
\* changes that object and nothing else.
mutate_returned_live(t, content) ==
    /\ pc[t] = "done"
    /\ ret[t].kind = "data"
    /\ ret[t].data.content # content
    /\ ret' = [ret EXCEPT ![t] = RetData([@.data EXCEPT !.content = content])]
    /\ db' = {IF r.id = ret[t].data.id THEN [r EXCEPT !.content = content] ELSE r :
                 r \in db}
    /\ UNCHANGED <<clock, born, returned, pc, call, db_session, hb, db0, stamp,
                   script, session_state>>

mutate_returned(t, content) ==
    /\ pc[t] = "done"
    /\ \/ /\ ret[t].kind = "data"
          /\ ret[t].data.content # content
          /\ ret' = [ret EXCEPT ![t] = RetData([@.data EXCEPT !.content = content])]
       \/ /\ ret[t].kind = "list"
          /\ \E k \in DOMAIN ret[t].val :
                /\ ret[t].val[k].content # content
                /\ ret' = [ret EXCEPT ![t] =
                              RetList([@.val EXCEPT ![k] = [@ EXCEPT !.content = content]])]
    /\ UNCHANGED <<db, clock, born, returned, pc, call, db_session, hb, db0, stamp,
                   script, session_state>>

\* The calls that return records, issued one after the other, and the caller
\* writing to the records it got.
NextCopy ==
    \E t \in Tasks :
        \/ /\ \A x \in Tasks \ {t} : pc[x] \in {"idle", "done"}
           /\ \/ \E u \in Users, c \in Contents : create_memory(t, u, c)
              \/ create_memory_commit(t)
              \/ create_memory_refresh(t)
              \/ \E i \in KnownIds, u \in Users : get_memory(t, i, u)
              \/ \E i \in KnownIds, c \in Contents, u \in Users : update_memory(t, i, c, u)
              \/ update_memory_commit(t)
              \/ update_memory_refresh(t)
              \/ \E u \in Users, q \in Queries : search_memories(t, u, q)
        \/ \E c \in Contents : mutate_returned(t, c)

SpecCopy == Init /\ [][NextCopy]_vars

\* The event loop resumes every coroutine whose awaited statement can complete,
\* and the database completes every statement that waits for no lock.
Continue(t) ==
    \/ create_memory_commit(t)
    \/ create_memory_refresh(t)
    \/ update_memory_commit(t)
    \/ update_memory_refresh(t)
    \/ delete_memory_commit(t)
    \/ clear_memories_commit(t)

FairSpec == Init /\ [][Next]_vars /\ \A t \in Tasks : WF_vars(Continue(t))

\* ---------------------------------------------------------------- failures
\* The storage layer fails in await db_session.commit(): nothing of the
\* transaction is stored, the except clause rolls back and raises again.
commit_fails(t) ==
    /\ pc[t] \in {"create_commit", "update_commit", "delete_commit", "clear_commit"}
    /\ Return(t, Raise("OperationalError"))
    /\ UNCHANGED <<db, clock, born, returned, db0, stamp>>

\* The storage layer fails in await db_session.refresh(db_memory), after the
\* commit: the except clause rolls back a transaction that holds nothing and
\* raises again.
refresh_fails(t) ==
    /\ pc[t] \in {"create_refresh", "update_refresh"}
    /\ Return(t, Raise("OperationalError"))
    /\ UNCHANGED <<db, clock, born, returned, db0, stamp>>

\* The calls issued one after the other, each statement of which may fail.
NextFault ==
    \E t \in Tasks :
        /\ \A x \in Tasks \ {t} : pc[x] \in {"idle", "done"}
        /\ \/ \E u \in Users, c \in Contents : create_memory(t, u, c)
           \/ create_memory_commit(t)
           \/ create_memory_refresh(t)
           \/ \E i \in KnownIds, u \in Users : get_memory(t, i, u)
           \/ \E i \in KnownIds, c \in Contents, u \in Users : update_memory(t, i, c, u)
           \/ update_memory_commit(t)
           \/ update_memory_refresh(t)
           \/ \E u \in Users, q \in Queries : search_memories(t, u, q)
           \/ \E i \in KnownIds, u \in Users : delete_memory(t, i, u)
           \/ delete_memory_commit(t)
           \/ clear_memories(t)
           \/ clear_memories_commit(t)
           \/ commit_fails(t)
           \/ refresh_fails(t)

SpecFault == Init /\ [][NextFault]_vars

\* ---------------------------------------------------------------- endpoints
\* Calling an async method without await gives a coroutine object: the body of
\* the method does not run.
Coroutine(c) == [kind |-> "coroutine", call |-> c]

\* `not x`: None, False and the empty list are false; any other object is true.
Truthy(x) ==
    /\ x # None
    /\ x # RetBool(FALSE)
    /\ x # RetList(<<>>)

HTTPResponse(status, body) == [kind |-> "http", status |-> status, body |-> body]

\* HTTPException(status_code=404, detail="Memory not found")
HTTPException == HTTPResponse(404, "Memory not found")

\* An exception no handler catches (AttributeError, TypeError).
ServerError == HTTPResponse(500, "Internal Server Error")

\* A request without a required header is refused before the endpoint runs.
ValidationError == HTTPResponse(422, "Field required")

\* MemoryResponse(id=x.id, ...): needs an object with the five attributes.
MemoryResponse(x) ==
    IF x.kind = "data" THEN HTTPResponse(200, x.data) ELSE ServerError

NoHeader == [present |-> FALSE]
Header(v) == [present |-> TRUE, value |-> v]

create_memory_endpoint(t, user_id, content) ==
    /\ LET memory_data == Coroutine([op |-> "create", user_id |-> user_id,
                                     content |-> content]) IN
       BeginReturn(t, [op |-> "POST /memories", user_id |-> user_id,
                       content |-> content],
                   MemoryResponse(memory_data))
    /\ UNCHANGED <<db, clock, born, returned, db0, stamp>>

get_memory_endpoint(t, memory_id, user_id) ==
    /\ LET memory_data == Coroutine([op |-> "get", memory_id |-> memory_id,
                                     user_id |-> user_id]) IN
       BeginReturn(t, [op |-> "GET /memories/{memory_id}", memory_id |-> memory_id,
                       user_id |-> user_id],
                   IF ~ Truthy(memory_data) THEN HTTPException
                   ELSE MemoryResponse(memory_data))
    /\ UNCHANGED <<db, clock, born, returned, db0, stamp>>

update_memory_endpoint(t, memory_id, content, user_id) ==
    /\ LET memory_data == Coroutine([op |-> "update", memory_id |-> memory_id,
                                     content |-> content, user_id |-> user_id]) IN
       BeginReturn(t, [op |-> "PUT /memories/{memory_id}", memory_id |-> memory_id,
                       content |-> content, user_id |-> user_id],
                   IF ~ Truthy(memory_data) THEN HTTPException
                   ELSE MemoryResponse(memory_data))
    /\ UNCHANGED <<db, clock, born, returned, db0, stamp>>

\* The memory_id header is required; the list comprehension needs an iterable.
search_memories_endpoint(t, user_id, memory_id, query) ==
    /\ LET c == [op |-> "POST /memories/search", user_id |-> user_id,
                 memory_id |-> memory_id, query |-> query] IN
       IF ~ memory_id.present
       THEN BeginReturn(t, c, ValidationError)
       ELSE LET memory_exists == Coroutine([op |-> "get", memory_id |-> memory_id.value,
                                            user_id |-> user_id])
                memories == Coroutine([op |-> "search", user_id |-> user_id,
                                       query |-> query]) IN
            BeginReturn(t, c,
                IF ~ Truthy(memory_exists) THEN HTTPException
                ELSE IF memories.kind = "list"
                     THEN HTTPResponse(200, memories.val)
                     ELSE ServerError)
    /\ UNCHANGED <<db, clock, born, returned, db0, stamp>>

delete_memory_endpoint(t, memory_id, user_id) ==
    /\ LET deleted == Coroutine([op |-> "delete", memory_id |-> memory_id,
                                 user_id |-> user_id]) IN
       BeginReturn(t, [op |-> "DELETE /memories/{memory_id}", memory_id |-> memory_id,
                       user_id |-> user_id],
                   IF ~ Truthy(deleted) THEN HTTPException
                   ELSE HTTPResponse(200, [message |-> "Memory deleted successfully",
                                           id |-> memory_id]))
    /\ UNCHANGED <<db, clock, born, returned, db0, stamp>>

NextHttp ==
    \E t \in Tasks :
        \/ \E u \in Users, c \in Contents : create_memory_endpoint(t, u, c)
        \/ \E i \in KnownIds, u \in Users : get_memory_endpoint(t, i, u)
        \/ \E i \in KnownIds, c \in Contents, u \in Users :
               update_memory_endpoint(t, i, c, u)
        \/ \E u \in Users, q \in Queries :
           \E h \in {NoHeader} \cup {Header(i) : i \in KnownIds} :
               search_memories_endpoint(t, u, h, q)
        \/ \E i \in KnownIds, u \in Users : delete_memory_endpoint(t, i, u)

SpecHttp == Init /\ [][NextHttp]_vars

\* ---------------------------------------------------------------- init_db.py
\* One pass of the loop body of wait_for_db: the connection attempt.  When it
\* succeeds wait_for_db returns True and main goes on to init_db; when it
\* raises, the loop sleeps.
wait_for_db_offbyone(ok) ==
    /\ script.pc = "wait_for_db"
    /\ script.i <= script.max_retries
    /\ script' = [script EXCEPT
                     !.outcomes = Append(@, ok),
                     !.result = IF ok THEN "True" ELSE @,
                     !.pc = IF ok THEN "init_db" ELSE "sleep"]
    /\ UNCHANGED <<db, clock, born, returned, pc, call, db_session, ret, hb, db0,
                   stamp, session_state>>

wait_for_db(ok) ==
    /\ script.pc = "wait_for_db"
    /\ script.i < script.max_retries
    /\ script' = [script EXCEPT
                     !.outcomes = Append(@, ok),
                     !.result = IF ok THEN "True" ELSE @,
                     !.pc = IF ok THEN "init_db" ELSE "sleep"]
    /\ UNCHANGED <<db, clock, born, returned, pc, call, db_session, ret, hb, db0,
                   stamp, session_state>>

\* await asyncio.sleep(delay), then the next i of range(max_retries).
wait_for_db_sleep ==
    /\ script.pc = "sleep"
    /\ script' = [script EXCEPT !.i = @ + 1, !.pc = "wait_for_db"]
    /\ UNCHANGED <<db, clock, born, returned, pc, call, db_session, ret, hb, db0,
                   stamp, session_state>>

wait_for_db_exhausted_ignored ==
    /\ script.pc = "wait_for_db"
    /\ script.i >= script.max_retries
    /\ script' = [script EXCEPT !.result = "False", !.pc = "init_db"]
    /\ UNCHANGED <<db, clock, born, returned, pc, call, db_session, ret, hb, db0,
                   stamp, session_state>>

\* The range is exhausted: wait_for_db returns False and main calls sys.exit(1).
wait_for_db_exhausted ==
    /\ script.pc = "wait_for_db"
    /\ script.i >= script.max_retries
    /\ script' = [script EXCEPT !.result = "False", !.pc = "exited", !.exit_status = 1]
    /\ UNCHANGED <<db, clock, born, returned, pc, call, db_session, ret, hb, db0,
                   stamp, session_state>>

\* await init_db(): the tables are created in one transaction, or it raises
\* and main's except clause calls sys.exit(1); the finally clause comes next.
main_init_db(ok) ==
    /\ script.pc = "init_db"
    /\ script' = [script EXCEPT
                     !.tables = ok, !.reported = ok, !.raised = ~ ok,
                     !.pc = "dispose"]
    /\ UNCHANGED <<db, clock, born, returned, pc, call, db_session, ret, hb, db0,
                   stamp, session_state>>

\* finally: await engine.dispose(); then the process ends.
main_finally ==
    /\ script.pc = "dispose"
    /\ script' = [script EXCEPT
                     !.disposed = TRUE, !.pc = "exited",
                     !.exit_status = IF script.raised THEN 1 ELSE 0]
    /\ UNCHANGED <<db, clock, born, returned, pc, call, db_session, ret, hb, db0,
                   stamp, session_state>>

InitScript ==
    /\ db = {}
    /\ db0 = db
    /\ clock = 0
    /\ born = [i \in {} |-> 0]
    /\ returned = {}
    /\ pc = [t \in Tasks |-> "idle"]
    /\ call = [t \in Tasks |-> NoCall]
    /\ db_session = [t \in Tasks |-> AsyncSession]
    /\ ret = [t \in Tasks |-> Pending]
    /\ hb = {}
    /\ stamp = [t \in Tasks |-> {}]
    /\ \E max_retries \in 0..MaxRetries : script = ScriptStart(max_retries)
    /\ session_state = [t \in Tasks |-> "none"]

NextScript ==
    \/ \E ok \in BOOLEAN : wait_for_db(ok)
    \/ wait_for_db_sleep
    \/ wait_for_db_exhausted
    \/ \E ok \in BOOLEAN : main_init_db(ok)
    \/ main_finally

SpecScript == InitScript /\ [][NextScript]_vars

\* ---------------------------------------------------------------- get_db
\* async with AsyncSessionLocal() as session: ... yield session
get_db(t) ==
    /\ pc[t] = "idle"
    /\ pc' = [pc EXCEPT ![t] = "get_db_yield"]
    /\ call' = [call EXCEPT ![t] = [op |-> "request"]]
    /\ session_state' = [session_state EXCEPT ![t] = "open"]
    /\ hb' = Issued(t)
    /\ UNCHANGED <<db, clock, born, returned, db_session, ret, db0, stamp, script>>

\* The consumer of the session finishes: the generator is resumed at its yield.
endpoint_returns(t) ==
    /\ pc[t] = "get_db_yield"
    /\ pc' = [pc EXCEPT ![t] = "get_db_finally"]
    /\ ret' = [ret EXCEPT ![t] = None]
    /\ UNCHANGED <<db, clock, born, returned, call, db_session, hb, db0, stamp,
                   script, session_state>>

endpoint_raises_abandoned(t) ==
    /\ pc[t] = "get_db_yield"
    /\ pc' = [pc EXCEPT ![t] = "done"]
    /\ ret' = [ret EXCEPT ![t] = Raise("Exception")]
    /\ UNCHANGED <<db, clock, born, returned, call, db_session, hb, db0, stamp,
                   script, session_state>>

\* The consumer raises: the exception is thrown into the generator at its
\* yield, inside the try.
endpoint_raises(t) ==
    /\ pc[t] = "get_db_yield"
    /\ pc' = [pc EXCEPT ![t] = "get_db_finally"]
    /\ ret' = [ret EXCEPT ![t] = Raise("Exception")]
    /\ UNCHANGED <<db, clock, born, returned, call, db_session, hb, db0, stamp,
                   script, session_state>>

\* finally: await session.close()
get_db_finally(t) ==
    /\ pc[t] = "get_db_finally"
    /\ pc' = [pc EXCEPT ![t] = "get_db_exit"]
    /\ session_state' = [session_state EXCEPT ![t] = "closed"]
    /\ UNCHANGED <<db, clock, born, returned, call, db_session, ret, hb, db0, stamp,
                   script>>

\* Leaving the async with block closes the session once more; the request ends.
get_db_exit(t) ==
    /\ pc[t] = "get_db_exit"
    /\ pc' = [pc EXCEPT ![t] = "done"]
    /\ session_state' = [session_state EXCEPT ![t] = "closed"]
    /\ UNCHANGED <<db, clock, born, returned, call, db_session, ret, hb, db0, stamp,
                   script>>

NextSession ==
    \E t \in Tasks :
        \/ get_db(t)
        \/ endpoint_returns(t)
        \/ endpoint_raises(t)
        \/ get_db_finally(t)
        \/ get_db_exit(t)

SpecSession == Init /\ [][NextSession]_vars

\* ---------------------------------------------------------------- properties
\* t issues its call in this step.
Calls(t, ops) == pc[t] = "idle" /\ pc'[t] # "idle" /\ call'[t].op \in ops

AllDone == \A t \in Tasks : pc[t] = "done"

NotFound(op) == IF op = "delete" THEN RetBool(FALSE) ELSE None

\* C1: get, update and delete called on a stored record by a user who is not
\* its owner return what they return for an id that was never created
\* (None, None, False), in the same step, and the table is left as it was.
OwnershipIsolation ==
    [][\A t \in Tasks :
        Calls(t, {"get", "update", "delete"}) =>
            LET i == call'[t].memory_id
                u == call'[t].user_id IN
            (\/ \E r \in db : r.id = i /\ r.user_id # u
             \/ i \notin DOMAIN born) =>
                /\ pc'[t] = "done"
                /\ ret'[t] = NotFound(call'[t].op)
                /\ db' = db]_vars

OwnershipIsolationWitness ==
    \E t \in Tasks :
        /\ pc[t] = "done"
        /\ call[t].op = "update"
        /\ ret[t] = None
        /\ \E r \in db : r.id = call[t].memory_id /\ r.user_id # call[t].user_id

\* C2: get returns a record exactly when a row with the id and the owner is
\* stored, and the record carries that row's five fields; otherwise it
\* returns None.
GetReturnsStored ==
    [][\A t \in Tasks :
        Calls(t, {"get"}) =>
            /\ pc'[t] = "done"
            /\ LET stored == {r \in db : r.id = call'[t].memory_id
                                         /\ r.user_id = call'[t].user_id} IN
               IF stored = {} THEN ret'[t] = None
               ELSE \E r \in stored : ret'[t] = RetData(r)]_vars

GetReturnsStoredWitness ==
    \E t \in Tasks :
        /\ pc[t] = "done"
        /\ call[t].op = "get"
        /\ ret[t].kind = "data"
        /\ ret[t].data.updated_at > ret[t].data.created_at

\* C3: when all the tasks delete the same stored record as its owner, exactly
\* one of the calls returns True, the others return False, and the record is
\* gone afterwards.
ExactlyOneDeleteSucceeds ==
    (/\ AllDone
     /\ \A t \in Tasks : call[t].op = "delete"
     /\ \E r \in db0 : \A t \in Tasks :
            call[t].memory_id = r.id /\ call[t].user_id = r.user_id)
    => /\ Cardinality({t \in Tasks : ret[t] = RetBool(TRUE)}) = 1
       /\ \A t \in Tasks : ret[t] \in {RetBool(TRUE), RetBool(FALSE)}
       /\ \A t \in Tasks : ByKey(db, call[t].memory_id) = {}

\* C4: delete goes on to return True exactly when a row with the id and the
\* owner is stored when its select runs, and the row is then absent once it
\* has returned; otherwise it returns False at once; no other row changes.
DeleteReturnsStored ==
    [][\A t \in Tasks :
        /\ Calls(t, {"delete"}) =>
              /\ db' = db
              /\ IF \E r \in db : r.id = call'[t].memory_id
                                  /\ r.user_id = call'[t].user_id
                 THEN pc'[t] = "delete_commit"
                 ELSE pc'[t] = "done" /\ ret'[t] = RetBool(FALSE)
        /\ (pc[t] = "delete_commit" /\ pc'[t] # pc[t]) =>
              /\ pc'[t] = "done"
              /\ ret'[t] = RetBool(TRUE)
              /\ db' = {r \in db : r.id # call[t].memory_id}]_vars

DeleteReturnsStoredWitness ==
    \E s, t \in Tasks :
        /\ pc[t] = "done" /\ call[t].op = "delete" /\ ret[t] = RetBool(TRUE)
        /\ pc[s] = "done" /\ call[s].op = "delete" /\ ret[s] = RetBool(FALSE)
        /\ call[s].memory_id = call[t].memory_id
        /\ call[s].user_id = call[t].user_id
        /\ db = {}

\* C5: update called with an id that is not stored, or by a user who is not the
\* owner, returns None at once and changes no row.
UpdateNotFoundUnchanged ==
    [][\A t \in Tasks :
        Calls(t, {"update"}) =>
            ((~ \E r \in db : r.id = call'[t].memory_id
                              /\ r.user_id = call'[t].user_id)
             => /\ pc'[t] = "done"
                /\ ret'[t] = None
                /\ db' = db)]_vars

UpdateNotFoundUnchangedWitness ==
    \E t \in Tasks :
        /\ pc[t] = "done"
        /\ call[t].op = "update"
        /\ ret[t] = None
        /\ db # {}
        /\ ByKey(db, call[t].memory_id) = {}

\* C6: an update that returns a record has stored the supplied content and
\* returns a record with that content, with the id it was called with and the
\* created_at stamped at creation.
UpdateReturnsSupplied ==
    [][\A t \in Tasks :
        (pc[t] = "update_refresh" /\ pc'[t] = "done" /\ ret'[t].kind = "data") =>
            /\ ret'[t].data.content = call[t].content
            /\ ret'[t].data.id = call[t].memory_id
            /\ ret'[t].data.created_at = born[call[t].memory_id].created_at]_vars

\* C7: the updated_at stored for a record never decreases.
UpdatedAtNeverDecreases ==
    [][\A r \in db : \A n \in db' :
        n.id = r.id => n.updated_at >= r.updated_at]_vars

SeqReturn(rows, c, r) ==
    LET found == IF c.op \in {"get", "update", "delete"}
                 THEN SelectOwned(rows, c.memory_id, c.user_id) ELSE {} IN
    CASE c.op = "create" ->
            IF /\ r.kind = "data"
               /\ r.data.user_id = c.user_id
               /\ r.data.content = c.content
               /\ r.data.created_at = r.data.updated_at
               /\ ByKey(rows, r.data.id) = {}
            THEN {rows \cup {r.data}} ELSE {}
      [] c.op = "get" ->
            IF found = {} THEN (IF r = None THEN {rows} ELSE {})
            ELSE (IF r.kind = "data" /\ r.data \in found THEN {rows} ELSE {})
      [] c.op = "update" ->
            IF found = {} THEN (IF r = None THEN {rows} ELSE {})
            ELSE IF r.kind = "data"
                 THEN {(rows \ {m}) \cup {r.data} :
                         m \in {x \in found :
                                  r.data = [x EXCEPT !.content = c.content,
                                                     !.updated_at = r.data.updated_at]}}
                 ELSE {}
      [] c.op = "search" ->
            IF /\ r.kind = "list"
               /\ IF IsBlank(c.query) THEN r.val = <<>>
                  ELSE r.val \in OrderByCreatedDesc(SearchRows(rows, c.user_id, c.query))
            THEN {rows} ELSE {}
      [] c.op = "delete" ->
            IF found = {} THEN (IF r = RetBool(FALSE) THEN {rows} ELSE {})
            ELSE (IF r = RetBool(TRUE) THEN {rows \ found} ELSE {})
      [] c.op = "clear" ->
            IF r = RetInt(Cardinality(rows)) THEN {{}} ELSE {}

Orders ==
    {o \in [1..Cardinality(Tasks) -> Tasks] :
        /\ \A i, j \in DOMAIN o : i # j => o[i] # o[j]
        /\ \A i, j \in DOMAIN o : i < j => <<o[j], o[i]>> \notin hb}

RECURSIVE Replay(_, _)
Replay(stores, o) ==
    IF o = <<>> THEN stores
    ELSE Replay(UNION {SeqReturn(rows, call[Head(o)], ret[Head(o)]) : rows \in stores},
                Tail(o))

\* C9: when the calls have returned, there is one order of them, keeping every
\* call after those that returned before it was issued, in which running them
\* one at a time from the initial rows gives every call its return value and
\* ends with the rows now stored.
Linearizable == AllDone => \E o \in Orders : db \in Replay({db0}, o)

\* C10: no two calls are at the same time between their first and their last
\* statement on the table.
MutualExclusion ==
    \A s, t \in Tasks :
        (s # t /\ pc[s] \notin {"idle", "done"}) => pc[t] \in {"idle", "done"}

\* C11: when all the tasks update the same stored record as its owner and have
\* returned, every call has returned a record, and the stored row carries the
\* content one of the calls supplied together with a timestamp that same call
\* took.
NoTornWrite ==
    (/\ AllDone
     /\ \A t \in Tasks : call[t].op = "update"
     /\ \E r \in db0 : \A t \in Tasks :
            call[t].memory_id = r.id /\ call[t].user_id = r.user_id)
    => /\ \A t \in Tasks : ret[t].kind = "data"
       /\ \A r \in db : \E t \in Tasks :
              /\ r.id = call[t].memory_id
              /\ r.content = call[t].content
              /\ r.updated_at \in stamp[t]

\* q occurs in s as a run of consecutive characters.
IsSubstring(s, q) ==
    \E k \in 0..(Len(s) - Len(q)) : SubSeq(s, k + 1, k + Len(q)) = q

\* No call has been issued that deletes the row i.
NoRemoval(i) ==
    \A x \in Tasks :
        /\ call[x].op # "clear"
        /\ ~ (call[x].op = "delete" /\ call[x].memory_id = i)

\* C12: once create has returned a record with id i for owner u, and while no
\* delete of i and no clear has been issued, a get, update or delete of i by u
\* that is issued finds the row, and a search by u whose query occurs in the
\* record's content lists it.
CreateVisible ==
    [][\A t, s \in Tasks :
        (/\ Calls(t, {"get", "update", "delete", "search"})
         /\ pc[s] = "done" /\ call[s].op = "create" /\ ret[s].kind = "data"
         /\ call'[t].user_id = call[s].user_id
         /\ NoRemoval(ret[s].data.id))
        => LET i == ret[s].data.id
               c == call'[t] IN
           /\ (c.op = "get" /\ c.memory_id = i) =>
                  ret'[t].kind = "data" /\ ret'[t].data.id = i
           /\ (c.op = "update" /\ c.memory_id = i) =>
                  pc'[t] = "update_commit" /\ db_session'[t].db_memory.id = i
           /\ (c.op = "delete" /\ c.memory_id = i) =>
                  pc'[t] = "delete_commit" /\ db_session'[t].db_memory.id = i
           /\ (/\ c.op = "search"
               /\ c.query # <<>>
               /\ \E k \in DOMAIN c.query : c.query[k] # " "
               /\ IsSubstring(Lower(ret[s].data.content), Lower(c.query))) =>
                  \E k \in DOMAIN ret'[t].val : ret'[t].val[k].id = i]_vars

CreateVisibleWitness ==
    \E s, t \in Tasks :
        /\ pc[s] = "done" /\ call[s].op = "create" /\ ret[s].kind = "data"
        /\ <<s, t>> \in hb
        /\ pc[t] = "done" /\ call[t].op = "search"
        /\ call[t].user_id = call[s].user_id
        /\ \E k \in DOMAIN ret[t].val : ret[t].val[k].id = ret[s].data.id

\* C13: a create that no other call overlaps returns a record; every record
\* create returns has the content and the owner it was called with and
\* created_at = updated_at; and a get of the returned id by that owner, issued
\* next, returns a record with the same id, content and owner.
CreateGetRoundTrip ==
    [][\A t \in Tasks :
        /\ (pc[t] = "create_refresh" /\ pc'[t] = "done") =>
              /\ (\A x \in Tasks \ {t} : pc[x] = "idle" \/ <<x, t>> \in hb)
                     => ret'[t].kind = "data"
              /\ ret'[t].kind = "data" =>
                     /\ ret'[t].data.content = call[t].content
                     /\ ret'[t].data.user_id = call[t].user_id
                     /\ ret'[t].data.created_at = ret'[t].data.updated_at
        /\ Calls(t, {"get"}) =>
              \A s \in Tasks :
                  (/\ pc[s] = "done" /\ call[s].op = "create" /\ ret[s].kind = "data"
                   /\ call'[t].memory_id = ret[s].data.id
                   /\ call'[t].user_id = call[s].user_id)
                  => /\ ret'[t].kind = "data"
                     /\ ret'[t].data.id = ret[s].data.id
                     /\ ret'[t].data.content = call[s].content
                     /\ ret'[t].data.user_id = call[s].user_id]_vars

CreateGetRoundTripWitness ==
    \E s, t \in Tasks :
        /\ pc[s] = "done" /\ call[s].op = "create" /\ call[s].content = <<>>
        /\ ret[s].kind = "data"
        /\ pc[t] = "done" /\ call[t].op = "get"
        /\ call[t].memory_id = ret[s].data.id
        /\ ret[t].kind = "data" /\ ret[t].data.content = <<>>
        /\ ret[t].data.user_id = call[s].user_id

\* The query is empty or has only whitespace.
OnlyWhitespace(query) == Len(SelectSeq(query, LAMBDA ch : ch # " ")) = 0

\* C14: a search whose query is empty or only whitespace returns the empty
\* list in its first step, whatever the owner and the rows stored, and leaves
\* the table alone.
BlankQueryEmpty ==
    [][\A t \in Tasks :
        (Calls(t, {"search"}) /\ OnlyWhitespace(call'[t].query)) =>
            /\ pc'[t] = "done"
            /\ ret'[t] = RetList(<<>>)
            /\ db' = db]_vars

BlankQueryEmptyWitness ==
    \E t \in Tasks :
        /\ pc[t] = "done" /\ call[t].op = "search"
        /\ call[t].query = <<" ">>
        /\ ret[t] = RetList(<<>>)
        /\ \E r \in db : r.user_id = call[t].user_id /\ r.content = <<" ">>

\* C15: a search with a non-blank query returns, each once, exactly the stored
\* rows of the owner whose lower-cased content has the lower-cased query as a
\* substring.
SearchExactSubstring ==
    \A t \in Tasks :
        (/\ pc[t] = "done" /\ call[t].op = "search"
         /\ ~ OnlyWhitespace(call[t].query))
        => /\ ret[t].kind = "list"
           /\ {ret[t].val[k] : k \in DOMAIN ret[t].val}
                  = {r \in db : /\ r.user_id = call[t].user_id
                                /\ IsSubstring(Lower(r.content), Lower(call[t].query))}
           /\ \A j, k \in DOMAIN ret[t].val : j # k => ret[t].val[j] # ret[t].val[k]

\* The queries are the same up to the case of their letters.
DiffersOnlyInCase(p, q) ==
    /\ Len(p) = Len(q)
    /\ \A k \in DOMAIN p :
           p[k] = q[k] \/ {p[k], q[k]} \in {{"a", "A"}, {"b", "B"}}

\* C16: two searches by one owner on the same rows, with queries that differ
\* only in letter case, return the same set of records.
SearchCaseInvariant ==
    \A s, t \in Tasks :
        (/\ pc[s] = "done" /\ call[s].op = "search"
         /\ pc[t] = "done" /\ call[t].op = "search"
         /\ call[s].user_id = call[t].user_id
         /\ DiffersOnlyInCase(call[s].query, call[t].query))
        => {ret[s].val[k] : k \in DOMAIN ret[s].val}
               = {ret[t].val[k] : k \in DOMAIN ret[t].val}

SearchCaseInvariantWitness ==
    \E s, t \in Tasks :
        /\ pc[s] = "done" /\ call[s].op = "search" /\ call[s].query = <<"b">>
        /\ pc[t] = "done" /\ call[t].op = "search" /\ call[t].query = <<"B">>
        /\ call[s].user_id = call[t].user_id
        /\ ret[s].val # <<>>
        /\ ret[t].val # <<>>

\* C17: every record a search returns is owned by the user the search was
\* called with, also while other calls run.
SearchIsolation ==
    \A t \in Tasks :
        (pc[t] = "done" /\ call[t].op = "search") =>
            /\ ret[t].kind = "list"
            /\ \A k \in DOMAIN ret[t].val : ret[t].val[k].user_id = call[t].user_id

SearchIsolationWitness ==
    \E t \in Tasks :
        /\ pc[t] = "done" /\ call[t].op = "search"
        /\ ret[t].val # <<>>
        /\ \E r \in db : /\ r.user_id # call[t].user_id
                         /\ IsSubstring(Lower(r.content), Lower(call[t].query))

\* C18: in the list a search returns, a record with a later created_at comes
\* before every record with an earlier one.
SearchNewestFirst ==
    \A t \in Tasks :
        (pc[t] = "done" /\ call[t].op = "search") =>
            \A j, k \in DOMAIN ret[t].val :
                ret[t].val[j].created_at > ret[t].val[k].created_at => j < k

SearchNewestFirstWitness ==
    \E t \in Tasks :
        /\ pc[t] = "done" /\ call[t].op = "search"
        /\ Len(ret[t].val) >= 2
        /\ ret[t].val[1].created_at > ret[t].val[2].created_at

\* C19: once clear has returned, and while no create has been issued, the
\* table is empty: a get returns None, a delete returns False and a search
\* returns the empty list, for every id, owner and query.
ClearRemovesAll ==
    [][\A t \in Tasks :
        (/\ Calls(t, {"get", "delete", "search"})
         /\ \E s \in Tasks : pc[s] = "done" /\ call[s].op = "clear" /\ ret[s].kind = "int"
         /\ \A x \in Tasks : call[x].op # "create")
        => /\ db = {}
           /\ pc'[t] = "done"
           /\ ret'[t] = CASE call'[t].op = "get" -> None
                          [] call'[t].op = "delete" -> RetBool(FALSE)
                          [] call'[t].op = "search" -> RetList(<<>>)]_vars

ClearRemovesAllWitness ==
    \E s, t \in Tasks :
        /\ pc[s] = "done" /\ call[s].op = "clear" /\ ret[s] = RetInt(Cardinality(db0))
        /\ <<s, t>> \in hb
        /\ pc[t] = "done" /\ call[t].op = "get" /\ ret[t] = None
        /\ \E r \in db0 : r.id = call[t].memory_id /\ r.user_id = call[t].user_id

\* C20: get, update, delete and search never end by raising: an absent or
\* foreign record is reported by None, False or the empty list.
NeverRaises ==
    \A t \in Tasks :
        call[t].op \in {"get", "update", "delete", "search"} => ret[t].kind # "raise"

UpdatedNotBeforeCreated ==
    \A r \in db : r.updated_at >= r.created_at

UpdatedNotBeforeCreatedWitness ==
    \E r \in db :
        /\ r.id \notin {x.id : x \in db0}
        /\ r.updated_at > r.created_at

\* C23: a stored row is owned by the user its id was created for, and no step
\* changes the owner of a row.
OwnerNeverChanges ==
    [][/\ \A r \in db' : r.id \in DOMAIN born' /\ r.user_id = born'[r.id].user_id
       /\ \A r \in db : \A n \in db' : n.id = r.id => n.user_id = r.user_id]_vars

OwnerNeverChangesWitness ==
    \E s, t \in Tasks : \E r \in db :
        /\ pc[s] = "done" /\ call[s].op = "create" /\ ret[s].kind = "data"
        /\ ret[s].data.id = r.id
        /\ pc[t] = "done" /\ call[t].op = "update" /\ call[t].memory_id = r.id
        /\ call[t].user_id # r.user_id
        /\ r.user_id = call[s].user_id

\* The ids of records that callers have known and that are stored no longer.
Removed == {i \in returned : \A r \in db : r.id # i}

\* C24: a create never draws the id of a record that has been removed, and
\* returns the id it drew; a get or update of a removed id returns None and a
\* delete of it False.
IdsNeverReused ==
    [][\A t \in Tasks :
        /\ Calls(t, {"create"}) => db_session'[t].db_memory.id \notin Removed
        /\ (pc[t] = "create_refresh" /\ ret'[t].kind = "data") =>
              ret'[t].data.id = db_session[t].db_memory.id
        /\ (Calls(t, {"get", "update", "delete"}) /\ call'[t].memory_id \in Removed) =>
              /\ pc'[t] = "done"
              /\ ret'[t] = NotFound(call'[t].op)]_vars

IdsNeverReusedWitness ==
    \E s, t \in Tasks :
        /\ <<s, t>> \in hb
        /\ pc[s] = "done" /\ call[s].op = "delete" /\ ret[s] = RetBool(TRUE)
        /\ pc[t] = "done" /\ call[t].op = "create" /\ ret[t].kind = "data"
        /\ ret[t].data.id # call[s].memory_id
        /\ call[s].memory_id \in Removed

\* C27: when an update and a delete of one stored record by its owner have
\* both finished and the delete returned True, the record is not stored.
NoResurrection ==
    \A s, t \in Tasks :
        (/\ pc[s] = "done" /\ call[s].op = "update"
         /\ pc[t] = "done" /\ call[t].op = "delete" /\ ret[t] = RetBool(TRUE)
         /\ call[s].memory_id = call[t].memory_id
         /\ call[s].user_id = call[t].user_id)
        => \A r \in db : r.id # call[t].memory_id

NoResurrectionWitness ==
    \E s, t \in Tasks :
        /\ pc[s] = "done" /\ call[s].op = "update" /\ ret[s].kind = "raise"
        /\ pc[t] = "done" /\ call[t].op = "delete" /\ ret[t] = RetBool(TRUE)
        /\ call[s].memory_id = call[t].memory_id
        /\ db = {}

\* C30: a get or a search leaves every stored row as it was, and gets of one
\* record by its owner, with no other call running, return the same record.
ReadsChangeNothing ==
    [][/\ \A t \in Tasks : Calls(t, {"get", "search"}) => db' = db
       /\ \A s, t \in Tasks :
            (/\ pc'[s] = "done" /\ call'[s].op = "get"
             /\ pc'[t] = "done" /\ call'[t].op = "get"
             /\ call'[s].memory_id = call'[t].memory_id
             /\ call'[s].user_id = call'[t].user_id)
            => ret'[s] = ret'[t]]_vars

ReadsChangeNothingWitness ==
    \E s, t \in Tasks :
        /\ s # t
        /\ pc[s] = "done" /\ call[s].op = "get" /\ ret[s].kind = "data"
        /\ pc[t] = "done" /\ call[t].op = "get" /\ ret[t] = ret[s]
        /\ ret[s].data \in db

\* C25: a get, update or delete request is answered 404 when no row with the
\* id and the owner is stored, and otherwise 200, with the record of that id
\* and owner for get and update.
NotFoundIs404 ==
    [][\A t \in Tasks :
        Calls(t, {"GET /memories/{memory_id}", "PUT /memories/{memory_id}",
                  "DELETE /memories/{memory_id}"}) =>
            LET c == call'[t] IN
            IF SelectOwned(db, c.memory_id, c.user_id) = {}
            THEN ret'[t].status = 404
            ELSE /\ ret'[t].status = 200
                 /\ c.op # "DELETE /memories/{memory_id}" =>
                        /\ ret'[t].body.id = c.memory_id
                        /\ ret'[t].body.user_id = c.user_id]_vars

\* C26: a search request with a user and a query is answered 200 with what
\* search_memories returns for them on the stored rows, whether or not the
\* request names a record.
SearchRequestSucceeds ==
    [][\A t \in Tasks :
        Calls(t, {"POST /memories/search"}) =>
            LET c == call'[t] IN
            /\ ret'[t].status = 200
            /\ IF OnlyWhitespace(c.query) THEN ret'[t].body = <<>>
               ELSE \E l \in OrderByCreatedDesc(SearchRows(db, c.user_id, c.query)) :
                        ret'[t].body = [i \in DOMAIN l |-> from_model(l[i])]]_vars

\* C28: every call that has been issued returns (or raises): no call waits
\* forever for another.
EventuallyReturns ==
    \A t \in Tasks : (pc[t] \notin {"idle", "done"}) ~> (pc[t] = "done")

EventuallyReturnsWitness ==
    \E t \in Tasks :
        /\ pc[t] \in {"update_commit", "delete_commit"}
        /\ db_session[t].db_memory.id \in LockedByOthers(t)

\* C29: when a create, update, delete or clear has raised, and no other call
\* has been issued, the stored rows are those stored before the call.
FailureLeavesStore ==
    \A t \in Tasks :
        (/\ pc[t] = "done"
         /\ call[t].op \in {"create", "update", "delete", "clear"}
         /\ ret[t].kind = "raise"
         /\ \A x \in Tasks \ {t} : pc[x] = "idle")
        => db = db0

\* C32: wait_for_db makes at most max_retries connection attempts; when it
\* has returned True its last attempt succeeded and no earlier one did; it
\* has returned False exactly when it has returned after max_retries failed
\* attempts; and until the script has exited it has a next step.
WaitForDbBounded ==
    LET o == script.outcomes IN
    /\ Len(o) <= script.max_retries
    /\ script.result = "True" =>
           /\ o # <<>>
           /\ o[Len(o)]
           /\ \A k \in 1..(Len(o) - 1) : ~ o[k]
    /\ script.result = "False" <=>
           /\ script.pc \notin {"wait_for_db", "sleep"}
           /\ Len(o) = script.max_retries
           /\ \A k \in DOMAIN o : ~ o[k]
    /\ script.pc # "exited" => ENABLED NextScript

WaitForDbBoundedWitness ==
    /\ script.result = "True"
    /\ Len(script.outcomes) = script.max_retries
    /\ Len(script.outcomes) >= 3

\* C33: init_db is reached, and the tables exist, only when wait_for_db has
\* returned True; when the script has exited after no attempt succeeded or
\* after init_db raised, it has not reported success and its exit status is 1;
\* success is reported only with the tables created.
InitOrdering ==
    /\ (script.pc = "init_db" \/ script.tables) => script.result = "True"
    /\ script.reported => script.tables
    /\ (/\ script.pc = "exited"
        /\ \/ \A k \in DOMAIN script.outcomes : ~ script.outcomes[k]
           \/ script.raised)
       => ~ script.reported /\ script.exit_status = 1

InitOrderingWitness ==
    /\ script.pc = "exited"
    /\ script.result = "True"
    /\ script.raised
    /\ ~ script.tables
    /\ script.exit_status = 1
    /\ script.disposed

\* C34: the session of a request that has ended is closed, whether its
\* consumer returned or raised, and a closed session is not opened again.
SessionsClosed ==
    [][\A t \in Tasks :
        /\ (pc'[t] = "done" /\ call'[t].op = "request") => session_state'[t] = "closed"
        /\ session_state[t] = "closed" => session_state'[t] = "closed"]_vars

SessionsClosedWitness ==
    \E s, t \in Tasks :
        /\ pc[s] = "done" /\ call[s].op = "request" /\ ret[s] = Raise("Exception")
        /\ pc[t] = "done" /\ call[t].op = "request" /\ ret[t] = None
        /\ session_state[s] = "closed" /\ session_state[t] = "closed"

\* C31: the commit of a create adds one row and changes no stored row; the
\* commit of an update changes at most the content and updated_at of the row
\* with the given id; the commit of a delete removes the rows with the given
\* id and no other; every other row keeps all its fields.
TouchesOnlyTarget ==
    [][\A t \in Tasks :
        /\ (pc[t] = "create_commit" /\ pc'[t] = "create_refresh") =>
              /\ db \subseteq db'
              /\ Cardinality(db') = Cardinality(db) + 1
        /\ (pc[t] = "update_commit" /\ pc'[t] # pc[t]) =>
              /\ {r \in db' : r.id # call[t].memory_id}
                     = {r \in db : r.id # call[t].memory_id}
              /\ \A r \in db : \A n \in db' :
                     (r.id = call[t].memory_id /\ n.id = r.id) =>
                         /\ n.user_id = r.user_id
                         /\ n.created_at = r.created_at
              /\ Cardinality(db') = Cardinality(db)
        /\ (pc[t] = "delete_commit" /\ pc'[t] # pc[t]) =>
              db' = {r \in db : r.id # call[t].memory_id}]_vars

TouchesOnlyTargetWitness ==
    \E s, t \in Tasks : \E r, o \in db :
        /\ pc[t] = "done" /\ call[t].op = "update" /\ ret[t].kind = "data"
        /\ r.id = call[t].memory_id
        /\ r.content = call[t].content
        /\ r.updated_at > r.created_at
        /\ call[s].op = "create"
        /\ o.id # r.id
        /\ o.user_id = r.user_id
        /\ o.content # r.content
====
